---- MODULE Spec2Model ----
(***************************************************************************)
(* Model of web_to_csv.py: the per-file extraction loop that reads payroll *)
(* workbooks, locates the header row, keeps the Dean rows, normalizes      *)
(* their titles and accumulates them in all_deans, followed by the CSV     *)
(* emission.  Python strings are modelled as sequences of one-character    *)
(* strings so that the regular expressions of the script are computed      *)
(* character by character.                                                 *)
(***************************************************************************)
EXTENDS Integers, Sequences, FiniteSets, TLC

(***************************************************************************)
(* Python values: str, float NaN (an empty cell as pandas reads it), None, *)
(* int, and the RecursionError raised by unbounded recursion.              *)
(***************************************************************************)
PyStr(s) == [t |-> "str", v |-> s]
PyInt(n) == [t |-> "int", v |-> n]
PyNaN == [t |-> "nan"]
PyNone == [t |-> "None"]
RecursionError == [t |-> "RecursionError"]

(***************************************************************************)
(* Characters and the str methods the script uses.                         *)
(***************************************************************************)
UpperChars == <<"A", "B", "C", "D", "E", "F", "G", "H", "I", "J", "K", "L", "M", "N", "O", "P", "Q", "R", "S", "T", "U", "V", "W", "X", "Y", "Z">>
LowerChars == <<"a", "b", "c", "d", "e", "f", "g", "h", "i", "j", "k", "l", "m", "n", "o", "p", "q", "r", "s", "t", "u", "v", "w", "x", "y", "z">>
DigitChars == <<"0", "1", "2", "3", "4", "5", "6", "7", "8", "9">>

Range(f) == {f[i] : i \in DOMAIN f}

UpperSet == Range(UpperChars)
LowerSet == Range(LowerChars)
DigitSet == Range(DigitChars)
AlnumSet == UpperSet \cup LowerSet \cup DigitSet

IsUpper(c) == c \in UpperSet
IsLower(c) == c \in LowerSet
IsDigit(c) == c \in DigitSet
IsAlpha(c) == c \in UpperSet \/ c \in LowerSet
IsAlnum(c) == c \in AlnumSet
\* \w of the re module
IsWord(c) == c \in AlnumSet \/ c = "_"
\* \s of the re module and the characters str.strip() removes
IsSpace(c) == c \in {" ", "\t", "\n", "\r"}

ToLower == [c \in UpperSet |-> LowerChars[CHOOSE i \in 1..26 : UpperChars[i] = c]]
ToUpper == [c \in LowerSet |-> UpperChars[CHOOSE i \in 1..26 : LowerChars[i] = c]]
DigitValue == [c \in DigitSet |-> (CHOOSE i \in 1..10 : DigitChars[i] = c) - 1]

char_lower(c) == IF c \in UpperSet THEN ToLower[c] ELSE c

char_upper(c) == IF c \in LowerSet THEN ToUpper[c] ELSE c

str_lower(s) == [i \in 1..Len(s) |-> char_lower(s[i])]

str_upper(s) == [i \in 1..Len(s) |-> char_upper(s[i])]

\* a strip that removes one white-space character at each end
str_strip_once(s) ==
    LET lo == IF s # <<>> /\ IsSpace(s[1]) THEN 2 ELSE 1
        hi == IF Len(s) >= lo /\ IsSpace(s[Len(s)]) THEN Len(s) - 1 ELSE Len(s)
    IN  SubSeq(s, lo, hi)

str_strip(s) ==
    LET keep == {i \in 1..Len(s) : ~IsSpace(s[i])}
    IN  IF keep = {} THEN <<>>
        ELSE LET lo == CHOOSE i \in keep : \A j \in keep : i <= j
                 hi == CHOOSE i \in keep : \A j \in keep : j <= i
             IN  SubSeq(s, lo, hi)

\* sub in s
str_contains(s, sub) ==
    \E i \in 1..(Len(s) - Len(sub) + 1) : SubSeq(s, i, i + Len(sub) - 1) = sub

\* str(n) for a non-negative int
RECURSIVE int_str(_)
int_str(n) ==
    IF n < 10 THEN <<DigitChars[n + 1]>>
    ELSE Append(int_str(n \div 10), DigitChars[(n % 10) + 1])

\* int(s) for a string of decimal digits
RECURSIVE str_int(_)
str_int(s) ==
    IF s = <<>> THEN 0
    ELSE 10 * str_int(SubSeq(s, 1, Len(s) - 1)) + DigitValue[s[Len(s)]]

\* str(x)
py_str(x) ==
    CASE x.t = "str" -> x.v
      [] x.t = "nan" -> <<"n", "a", "n">>
      [] x.t = "None" -> <<"N", "o", "n", "e">>
      [] x.t = "int" -> int_str(x.v)

\* bool(x): None and "" are false, NaN and every other string are true
py_truthy(x) ==
    CASE x.t = "str" -> x.v # <<>>
      [] x.t = "nan" -> TRUE
      [] x.t = "None" -> FALSE
      [] x.t = "int" -> x.v # 0

(***************************************************************************)
(* Regular expression pieces.                                              *)
(***************************************************************************)
WordCharAt(s, p) == p >= 1 /\ p <= Len(s) /\ IsWord(s[p])

\* \b between positions p-1 and p
re_boundary(s, p) == WordCharAt(s, p - 1) # WordCharAt(s, p)

\* \bw\b matching at position i, re.IGNORECASE (w is lower case)
re_word_at(s, i, w) ==
    /\ i >= 1
    /\ i + Len(w) - 1 <= Len(s)
    /\ str_lower(SubSeq(s, i, i + Len(w) - 1)) = w
    /\ re_boundary(s, i)
    /\ re_boundary(s, i + Len(w))

\* re.search(r'\bw\b', s, re.IGNORECASE)
re_search_word(s, w) == \E i \in 1..Len(s) : re_word_at(s, i, w)

\* re.search(r'\bdean\b.*\b(w1|w2|...)\b', s, re.IGNORECASE)
re_search_dean_then(s, words) ==
    \E i \in 1..Len(s) :
        /\ re_word_at(s, i, <<"d", "e", "a", "n">>)
        /\ \E j \in (i + 4)..Len(s) : \E w \in words : re_word_at(s, j, w)

\* re.fullmatch(r'[A-Z]{2,6}', s) or re.fullmatch(r'[a-z]{2,6}', s)
re_fullmatch_code(s) ==
    /\ Len(s) >= 2
    /\ Len(s) <= 6
    /\ \/ \A i \in 1..Len(s) : IsUpper(s[i])
       \/ \A i \in 1..Len(s) : IsLower(s[i])

\* ''.join(w[0].upper() for w in re.findall(r'[A-Za-z]+', s))
word_initials(s) ==
    LET starts == {i \in 1..Len(s) : IsAlpha(s[i]) /\ (i = 1 \/ ~IsAlpha(s[i - 1]))}
        isStart(i) == i \in starts
        idx == SelectSeq([i \in 1..Len(s) |-> i], isStart)
    IN  [k \in 1..Len(idx) |-> char_upper(s[idx[k]])]

(***************************************************************************)
(* normalize_col                                                           *)
(***************************************************************************)
normalize_col(col) ==
    IF col.t = "nan" THEN <<>>
    ELSE SelectSeq(str_lower(py_str(col)), IsAlnum)

(***************************************************************************)
(* normalize_dean_title                                                    *)
(***************************************************************************)
RecursionLimit == 3

CollegeCodes ==
    {<<"c", "o", "m">>, <<"c", "o", "e">>, <<"c", "o", "b", "a">>, <<"c", "h", "s", "s">>, <<"c", "j">>, <<"c", "a", "m">>, <<"c", "o", "s", "e", "t">>, <<"c", "o", "h", "s">>}

CollegeWords ==
    {<<"o", "s", "t", "e", "o", "p", "a", "t", "h", "i", "c">>, <<"e", "d", "u", "c", "a", "t", "i", "o", "n">>, <<"b", "u", "s", "i", "n", "e", "s", "s">>, <<"h", "u", "m", "a", "n", "i", "t">>, <<"c", "r", "i", "m", "i", "n", "a", "l">>,
     <<"a", "r", "t", "s">>, <<"s", "c", "i", "e", "n", "c", "e">>, <<"h", "e", "a", "l", "t", "h">>}

abbreviations ==
    << <<<<"c", "a", "m", " ", "o", "f", "f", "i", "c", "e", " ", "o", "f", " ", "t", "h", "e", " ", "d", "e", "a", "n">>, <<"C", "A", "M">>>>,
       <<<<"o", "f", "f", "i", "c", "e", " ", "o", "f", " ", "t", "h", "e", " ", "d", "e", "a", "n", " ", "c", "e">>, <<"C", "O", "E">>>>,
       <<<<"c", "h", "s", "s", " ", "o", "f", "f", "i", "c", "e", " ", "o", "f", " ", "t", "h", "e", " ", "d", "e", "a", "n">>, <<"C", "H", "S", "S">>>>,
       <<<<"c", "o", "b", "a", " ", "o", "f", "f", "i", "c", "e", " ", "o", "f", " ", "t", "h", "e", " ", "d", "e", "a", "n">>, <<"C", "O", "B", "A">>>>,
       <<<<"c", "o", "s", "e", "t", " ", "o", "f", "f", "i", "c", "e", " ", "o", "f", " ", "t", "h", "e", " ", "d", "e", "a", "n">>, <<"C", "O", "S", "E", "T">>>>,
       <<<<"c", "o", "h", "s", " ", "o", "f", "f", "i", "c", "e", " ", "o", "f", " ", "t", "h", "e", " ", "d", "e", "a", "n">>, <<"C", "O", "H", "S">>>>,
       <<<<"c", "o", "l", "l", "e", "g", "e", " ", "o", "f", " ", "c", "r", "i", "m", "i", "n", "a", "l", " ", "j", "u", "s", "t", "i", "c", "e">>, <<"C", "J">>>> >>

\* the "title already specifies college" test
title_specifies_college(title_clean) ==
    \/ re_search_dean_then(title_clean, CollegeCodes)
    \/ re_search_dean_then(title_clean, CollegeWords)

\* the for loop over abbreviations: the first entry found in dept_norm, or <<>>
abbreviation_lookup(dept_norm) ==
    LET hits == {i \in 1..Len(abbreviations) :
                    \/ str_contains(dept_norm, abbreviations[i][1])
                    \/ str_contains(str_lower(dept_norm), str_lower(abbreviations[i][1]))}
    IN  IF hits = {} THEN <<>>
        ELSE abbreviations[CHOOSE i \in hits : \A j \in hits : i <= j][2]

\* the body of "if dept_str and dept_str.lower() not in [...]": always returns
dept_to_title(dept_str) ==
    LET dept_norm == str_lower(dept_str)
        found == abbreviation_lookup(dept_norm)
        all_initials == word_initials(dept_str)
        initials == SubSeq(all_initials, 1,
                           IF Len(all_initials) < 4 THEN Len(all_initials) ELSE 4)
    IN  IF re_fullmatch_code(dept_str) THEN <<"D", "e", "a", "n", " ">> \o str_upper(dept_str)
        ELSE IF found # <<>> THEN <<"D", "e", "a", "n", " ">> \o found
        ELSE IF Len(initials) >= 2 THEN <<"D", "e", "a", "n", " ">> \o initials
        ELSE <<"D", "e", "a", "n", " ">> \o dept_str

\* the guard of the "Dean of College" block and of its inner if
dept_rule_applies(title_clean, dept) ==
    /\ re_search_word(title_clean, <<"d", "e", "a", "n">>)
    /\ re_search_word(title_clean, <<"c", "o", "l", "l", "e", "g", "e">>)
    /\ py_truthy(dept)
    /\ str_strip(py_str(dept)) # <<>>
    /\ str_lower(str_strip(py_str(dept))) \notin {<<"n", "a", "n">>, <<"n", "o", "n", "e">>, <<>>}

RECURSIVE normalize_rec(_, _, _)
normalize_rec(title, dept, depth) ==
    IF title.t # "str" THEN title
    ELSE LET title_clean == str_strip(title.v)
         IN  IF title_specifies_college(title_clean) THEN PyStr(title_clean)
             ELSE IF dept_rule_applies(title_clean, dept)
                  THEN PyStr(dept_to_title(str_strip(py_str(dept))))
             ELSE IF re_search_dean_then(title_clean, {<<"c", "o", "l", "l", "e", "g", "e">>}) /\ py_truthy(dept)
                  THEN IF depth >= RecursionLimit THEN RecursionError
                       ELSE normalize_rec(PyStr(<<"D", "e", "a", "n", " ", "o", "f", " ", "C", "o", "l", "l", "e", "g", "e">>), dept, depth + 1)
             ELSE PyStr(title_clean)

normalize_dean_title(title, dept) == normalize_rec(title, dept, 0)

(***************************************************************************)
(* Year extraction: re.search(r'FY[\s_]*(\d{2,4})', filename, IGNORECASE)  *)
(***************************************************************************)
\* number of characters from position p on that satisfy \s or _
RECURSIVE skip_separators(_, _)
skip_separators(s, p) ==
    IF p <= Len(s) /\ (IsSpace(s[p]) \/ s[p] = "_") THEN skip_separators(s, p + 1) ELSE p

\* number of digits starting at position p, at most 4 (greedy \d{2,4})
digit_run(s, p) ==
    LET ok(n) == \A k \in 0..(n - 1) : p + k <= Len(s) /\ IsDigit(s[p + k])
    IN  CHOOSE n \in 0..4 : ok(n) /\ (n = 4 \/ ~ok(n + 1))

\* the positions where the pattern matches
fy_matches(filename) ==
    {i \in 1..(Len(filename) - 1) :
        /\ str_lower(SubSeq(filename, i, i + 1)) = <<"f", "y">>
        /\ digit_run(filename, skip_separators(filename, i + 2)) >= 2}

extract_year(filename) ==
    IF fy_matches(filename) = {} THEN PyNone
    ELSE LET i == CHOOSE m \in fy_matches(filename) : \A k \in fy_matches(filename) : m <= k
             p == skip_separators(filename, i + 2)
             year_str == SubSeq(filename, p, p + digit_run(filename, p) - 1)
         IN  IF Len(year_str) = 2 THEN PyInt(str_int(<<"2", "0">> \o year_str))
             ELSE PyInt(str_int(year_str))

(***************************************************************************)
(* Header reconciliation                                                   *)
(***************************************************************************)
col_map ==
    << <<<<"p", "o", "s", "i", "t", "i", "o", "n", "t", "i", "t", "l", "e">>, <<"T", "i", "t", "l", "e">>>>,
       <<<<"j", "o", "b", "t", "i", "t", "l", "e">>, <<"T", "i", "t", "l", "e">>>>,
       <<<<"t", "i", "t", "l", "e">>, <<"T", "i", "t", "l", "e">>>>,
       <<<<"e", "m", "p", "l", "o", "y", "e", "e", "n", "a", "m", "e">>, <<"N", "a", "m", "e">>>>,
       <<<<"n", "a", "m", "e">>, <<"N", "a", "m", "e">>>>,
       <<<<"a", "n", "n", "u", "a", "l", "s", "a", "l", "a", "r", "y">>, <<"S", "a", "l", "a", "r", "y">>>>,
       <<<<"s", "a", "l", "a", "r", "y">>, <<"S", "a", "l", "a", "r", "y">>>>,
       <<<<"a", "n", "n", "u", "a", "l", "p", "a", "y", "r", "a", "t", "e">>, <<"S", "a", "l", "a", "r", "y">>>>,
       <<<<"f", "y", "1", "8", "a", "n", "n", "u", "a", "l", "s", "a", "l", "a", "r", "y">>, <<"S", "a", "l", "a", "r", "y">>>>,
       <<<<"f", "y", "1", "9", "a", "n", "n", "u", "a", "l", "s", "a", "l", "a", "r", "y">>, <<"S", "a", "l", "a", "r", "y">>>> >>

\* col_map.get(c, c)
col_map_get(c) ==
    IF \E i \in 1..Len(col_map) : col_map[i][1] = c
    THEN col_map[CHOOSE i \in 1..Len(col_map) : col_map[i][1] = c][2]
    ELSE c

\* a search that stops one row early
HeaderRowsShort == 10 - 1

\* range(10)
HeaderRows == 10

\* the column labels pandas derives from a header row: an empty cell is
\* "Unnamed: k", a repeated label gets the suffix ".n"
pandas_columns(row) ==
    LET base(k) == IF row[k].t = "nan" THEN <<"U", "n", "n", "a", "m", "e", "d", ":", " ">> \o int_str(k - 1)
                   ELSE py_str(row[k])
        earlier(k) == Cardinality({j \in 1..(k - 1) : base(j) = base(k)})
    IN  [k \in 1..Len(row) |->
            IF earlier(k) = 0 THEN base(k)
            ELSE base(k) \o <<".">> \o int_str(earlier(k))]

\* pd.read_excel(xls, sheet_name, header=h): raises, or gives a frame whose
\* columns come from grid row h and whose rows are the grid rows below it
read_excel(sheet, h) ==
    IF ~sheet.readable THEN [raised |-> TRUE]
    ELSE IF sheet.rows = <<>> THEN [raised |-> FALSE, columns |-> <<>>, rows |-> <<>>]
    ELSE IF h >= Len(sheet.rows) THEN [raised |-> TRUE]
    ELSE [raised |-> FALSE,
          columns |-> pandas_columns(sheet.rows[h + 1]),
          rows |-> [k \in 1..(Len(sheet.rows) - h - 1) |->
                        [i |-> h + k, c |-> sheet.rows[h + 1 + k]]]]

\* df_try.columns after normalize_col and col_map
mapped_cols(columns) ==
    [k \in 1..Len(columns) |-> col_map_get(normalize_col(PyStr(columns[k])))]

\* all(col in df_try.columns for col in ["Title", "Name", "Salary"])
essential_columns_exist(columns) ==
    \A col \in {<<"T", "i", "t", "l", "e">>, <<"N", "a", "m", "e">>, <<"S", "a", "l", "a", "r", "y">>} : col \in Range(columns)

\* position of the first column with this label
col_pos(columns, label) ==
    CHOOSE k \in 1..Len(columns) :
        columns[k] = label /\ \A j \in 1..(k - 1) : columns[j] # label

(***************************************************************************)
(* Dean filter                                                             *)
(***************************************************************************)
\* a search for Dean anywhere in the title instead of a match at its start
str_match_dean_anywhere(s) == str_contains(str_lower(s), <<"d", "e", "a", "n">>)

\* Series.str.match(r"^Dean\b", case=False)
str_match_dean(s) ==
    /\ Len(s) >= 4
    /\ str_lower(SubSeq(s, 1, 4)) = <<"d", "e", "a", "n">>
    /\ re_boundary(s, 5)

\* Series.str.contains("Dean's Office Specialist", case=False)
str_contains_specialist(s) ==
    str_contains(str_lower(s), str_lower(<<"D", "e", "a", "n", "'", "s", " ", "O", "f", "f", "i", "c", "e", " ", "S", "p", "e", "c", "i", "a", "l", "i", "s", "t">>))

\* a filter without the exclusion of the office specialist
is_dean_row_keeps_specialist(title) == str_match_dean(title)

is_dean_row(title) == str_match_dean(title) /\ ~str_contains_specialist(title)

\* df["Title"].astype(str).str.strip()
title_of(columns, row) == str_strip(py_str(row.c[col_pos(columns, <<"T", "i", "t", "l", "e">>)]))

filter_deans(columns, rows) ==
    LET keep(row) == is_dean_row(title_of(columns, row))
    IN  SelectSeq(rows, keep)

(***************************************************************************)
(* Department column detection                                             *)
(***************************************************************************)
dept_candidates ==
    {<<"d", "e", "p", "a", "r", "t", "m", "e", "n", "t">>, <<"d", "e", "p", "t">>, <<"c", "o", "l", "l", "e", "g", "e">>, <<"d", "i", "v", "i", "s", "i", "o", "n">>, <<"u", "n", "i", "t">>, <<"s", "c", "h", "o", "o", "l">>}

is_dept_col(col) ==
    LET nc == normalize_col(PyStr(col))
    IN  \/ nc \in dept_candidates
        \/ str_contains(nc, <<"c", "o", "l", "l", "e", "g", "e">>)
        \/ (Len(nc) >= 4 /\ SubSeq(nc, 1, 4) = <<"d", "e", "p", "t">>)

\* position of the first department-like column, 0 when there is none
detect_dept_col(columns) ==
    IF \E k \in 1..Len(columns) : is_dept_col(columns[k])
    THEN CHOOSE k \in 1..Len(columns) :
            is_dept_col(columns[k]) /\ \A j \in 1..(k - 1) : ~is_dept_col(columns[j])
    ELSE 0

\* the new Title of one filtered row
row_title(columns, row) ==
    IF detect_dept_col(columns) # 0
    THEN normalize_dean_title(PyStr(title_of(columns, row)), row.c[detect_dept_col(columns)])
    ELSE normalize_dean_title(PyStr(title_of(columns, row)), PyNone)

\* a concatenation with the new block first
pd_concat_prepend(a, b) == b \o a

\* pd.concat([a, b], ignore_index=True)
pd_concat(a, b) == a \o b

(***************************************************************************)
(* Inputs: the file names of the discovered links and the workbooks        *)
(* behind them.                                                            *)
(***************************************************************************)
MaxSources == 2

Filenames ==
    {<<"F", "Y", "2", "0", "1", "3", "_", "F", "u", "l", "l", "_", "T", "i", "m", "e", "_", "E", "m", "p", "l", "o", "y", "e", "e", ".", "x", "l", "s", "x">>, <<"F", "Y", " ", "1", "8", " ", "F", "u", "l", "l", " ", "T", "i", "m", "e", " ", "E", "m", "p", "l", "o", "y", "e", "e", ".", "x", "l", "s", "x">>,
     <<"F", "u", "l", "l", " ", "T", "i", "m", "e", " ", "E", "m", "p", "l", "o", "y", "e", "e", ".", "x", "l", "s", "x">>}

BlankRow == <<PyNaN, PyNaN, PyNaN, PyNaN>>
BannerRow == <<PyStr(<<"S", "a", "l", "a", "r", "y", " ", "R", "e", "p", "o", "r", "t">>), PyNaN, PyNaN, PyNaN>>

\* k rows above the header: a banner line, then blank lines
Preamble(k) == [i \in 1..k |-> IF i = 1 THEN BannerRow ELSE BlankRow]

HeaderStd ==
    <<PyStr(<<"P", "O", "S", "I", "T", "I", "O", "N", "_", "T", "I", "T", "L", "E">>), PyStr(<<"N", "A", "M", "E">>), PyStr(<<"A", "N", "N", "U", "A", "L", " ", "S", "A", "L", "A", "R", "Y">>),
      PyStr(<<"T", "I", "M", "E", "S", "H", "E", "E", "T", "_", "O", "R", "G", "A", "N", "I", "Z", "A", "T", "I", "O", "N", "_", "D", "E", "S", "C">>)>>
HeaderUnderscore ==
    <<PyStr(<<"P", "o", "s", "i", "t", "i", "o", "n", "_", "T", "i", "t", "l", "e">>), PyStr(<<"E", "m", "p", "l", "o", "y", "e", "e", "_", "N", "a", "m", "e">>), PyStr(<<"A", "n", "n", "u", "a", "l", "_", "S", "a", "l", "a", "r", "y">>),
      PyStr(<<"D", "e", "p", "a", "r", "t", "m", "e", "n", "t">>)>>
HeaderFy18 ==
    <<PyStr(<<"J", "o", "b", " ", "T", "i", "t", "l", "e">>), PyStr(<<"N", "a", "m", "e">>), PyStr(<<"F", "Y", "1", "8", " ", "A", "n", "n", "u", "a", "l", " ", "S", "a", "l", "a", "r", "y">>), PyStr(<<"C", "o", "l", "l", "e", "g", "e">>)>>
HeaderNoTitle ==
    <<PyStr(<<"R", "a", "n", "k">>), PyStr(<<"N", "a", "m", "e">>), PyStr(<<"S", "a", "l", "a", "r", "y">>), PyStr(<<"D", "e", "p", "a", "r", "t", "m", "e", "n", "t">>)>>
HeaderTwoTitles ==
    <<PyStr(<<"T", "i", "t", "l", "e">>), PyStr(<<"N", "a", "m", "e">>), PyStr(<<"S", "a", "l", "a", "r", "y">>), PyStr(<<"J", "o", "b", " ", "T", "i", "t", "l", "e">>)>>

RowDeanCoset ==
    <<PyStr(<<"D", "e", "a", "n", " ", "C", "O", "S", "E", "T">>), PyStr(<<"J", "a", "n", "e", " ", "D", "o", "e">>), PyInt(150000),
      PyStr(<<"C", "O", "S", "E", "T", " ", "O", "f", "f", "i", "c", "e", " ", "o", "f", " ", "t", "h", "e", " ", "D", "e", "a", "n">>)>>
RowAssociate ==
    <<PyStr(<<"A", "s", "s", "o", "c", "i", "a", "t", "e", " ", "D", "e", "a", "n">>), PyStr(<<"J", "o", "h", "n", " ", "R", "o", "e">>), PyInt(120000), PyStr(<<"C", "H", "S", "S">>)>>
RowSpecialist ==
    <<PyStr(<<"D", "e", "a", "n", "'", "s", " ", "O", "f", "f", "i", "c", "e", " ", "S", "p", "e", "c", "i", "a", "l", "i", "s", "t", " ", "I", "I">>), PyStr(<<"A", "n", "n", " ", "P", "o", "e">>), PyInt(40000),
      PyStr(<<"C", "O", "B", "A", " ", "O", "f", "f", "i", "c", "e", " ", "o", "f", " ", "t", "h", "e", " ", "D", "e", "a", "n">>)>>
RowGenericCode ==
    <<PyStr(<<" ", "d", "e", "a", "n", " ", "o", "f", " ", "C", "o", "l", "l", "e", "g", "e", " ">>), PyStr(<<"R", "a", "j", " ", "M", "o", "e">>), PyInt(160000), PyStr(<<"c", "o", "b", "a">>)>>
RowGenericTable ==
    <<PyStr(<<"D", "e", "a", "n", ",", " ", "C", "o", "l", "l", "e", "g", "e">>), PyStr(<<"L", "e", "e", " ", "W", "o", "e">>), PyInt(170000),
      PyStr(<<"C", "o", "l", "l", "e", "g", "e", " ", "o", "f", " ", "C", "r", "i", "m", "i", "n", "a", "l", " ", "J", "u", "s", "t", "i", "c", "e">>)>>
RowGenericInitials ==
    <<PyStr(<<"D", "E", "A", "N", " ", "o", "f", " ", "C", "o", "l", "l", "e", "g", "e">>), PyStr(<<"K", "i", "m", " ", "F", "o", "e">>), PyInt(155000),
      PyStr(<<"D", "e", "a", "n", "'", "s", " ", "O", "f", "f", "i", "c", "e", " ", "S", "p", "e", "c", "i", "a", "l", "i", "s", "t">>)>>
RowGenericRaw ==
    <<PyStr(<<"D", "e", "a", "n", " ", "o", "f", " ", "C", "o", "l", "l", "e", "g", "e">>), PyStr(<<"S", "a", "m", " ", "H", "o", "e">>), PyInt(165000), PyStr(<<"L", "i", "b", "r", "a", "r", "y">>)>>
RowHumanities ==
    <<PyStr(<<"D", "e", "a", "n", " ", "C", "o", "l", "l", "e", "g", "e", " ", "o", "f", " ", "H", "u", "m", "a", "n", "i", "t", "i", "e", "s">>), PyStr(<<"P", "a", "t", " ", "N", "o", "e">>), PyInt(175000), PyStr(<<"C", "O", "B", "A">>)>>
RowNoDept ==
    <<PyStr(<<"D", "e", "a", "n", " ", "o", "f", " ", "C", "o", "l", "l", "e", "g", "e">>), PyStr(<<"M", "a", "x", " ", "Z", "o", "e">>), PyInt(180000), PyNaN>>
RowPlainDean ==
    <<PyStr(<<"D", "e", "a", "n">>), PyStr(<<"E", "v", "e", " ", "C", "o", "e">>), PyInt(185000), PyNaN>>
RowDeanery ==
    <<PyStr(<<"D", "e", "a", "n", "e", "r", "y", " ", "C", "l", "e", "r", "k">>), PyStr(<<"B", "o", " ", "T", "o", "e">>), PyInt(30000), PyStr(<<"C", "H", "S", "S">>)>>
RowEmptyTitle ==
    <<PyNaN, PyStr(<<"A", "l", " ", "J", "o", "e">>), PyInt(10000), PyNaN>>

Sheet(rows) == [readable |-> TRUE, rows |-> rows]

\* the end-to-end scenario: header in row 0, no department-like column
SheetScenario == Sheet(<<HeaderStd, RowDeanCoset, RowAssociate, RowGenericRaw>>)
\* header in row 3 under three title/blank rows
SheetOffset3 ==
    Sheet(Preamble(3) \o <<HeaderUnderscore, RowAssociate, RowGenericCode, RowSpecialist,
                           RowGenericTable, RowDeanery, RowGenericInitials>>)
\* header in the last row searched, and repeated further down
SheetOffset9 ==
    Sheet(Preamble(9) \o <<HeaderFy18, RowHumanities, RowEmptyTitle, HeaderFy18,
                           RowGenericRaw, RowPlainDean>>)
\* header one row below the last row searched
SheetOffset10 == Sheet(Preamble(10) \o <<HeaderUnderscore, RowDeanCoset>>)
SheetNoTitle == Sheet(<<HeaderNoTitle, RowDeanCoset, RowGenericCode>>)
SheetNoDeans == Sheet(Preamble(1) \o <<HeaderUnderscore, RowAssociate, RowSpecialist>>)
SheetTwoTitles == Sheet(<<HeaderTwoTitles, RowDeanCoset>>)
SheetNoDept == Sheet(Preamble(2) \o <<HeaderUnderscore, RowDeanCoset, RowNoDept>>)
SheetEmpty == Sheet(<<>>)
\* a first sheet that the engine cannot read
SheetUnreadable == [readable |-> FALSE, rows |-> <<>>]

\* what lies behind a link: the fetch outcome, which engines open the
\* bytes, and the first sheet of the workbook
Content(fetch_ok, openpyxl_ok, xlrd_ok, sheet) ==
    [fetch_ok |-> fetch_ok, openpyxl_ok |-> openpyxl_ok, xlrd_ok |-> xlrd_ok, sheet |-> sheet]

Link(f, c) ==
    [filename |-> f, fetch_ok |-> c.fetch_ok, openpyxl_ok |-> c.openpyxl_ok,
     xlrd_ok |-> c.xlrd_ok, sheet |-> c.sheet]

\* outcomes tried under every file name
CommonContents ==
    {Content(FALSE, FALSE, FALSE, SheetEmpty),
     Content(TRUE, FALSE, FALSE, SheetEmpty),
     Content(TRUE, FALSE, TRUE, SheetScenario),
     Content(TRUE, TRUE, FALSE, SheetOffset3),
     Content(TRUE, TRUE, FALSE, SheetNoDeans),
     Content(TRUE, TRUE, FALSE, SheetUnreadable)}

\* outcomes tried under one file name
OtherContents ==
    {Content(TRUE, TRUE, FALSE, s) :
        s \in {SheetScenario, SheetOffset9, SheetOffset10, SheetNoTitle, SheetTwoTitles,
               SheetNoDept, SheetEmpty}}

Sources ==
    {Link(f, c) : f \in Filenames, c \in CommonContents}
    \cup {Link(<<"F", "Y", "2", "0", "1", "3", "_", "F", "u", "l", "l", "_", "T", "i", "m", "e", "_", "E", "m", "p", "l", "o", "y", "e", "e", ".", "x", "l", "s", "x">>, c) : c \in OtherContents}

\* ft_links after list(dict.fromkeys(ft_links)): no link occurs twice
LinkLists ==
    {l \in UNION {[1..n -> Sources] : n \in 0..MaxSources} :
        \A i \in DOMAIN l : \A j \in DOMAIN l : i # j => l[i].filename # l[j].filename}

(***************************************************************************)
(* Inputs of the title normalizer called on its own.                       *)
(***************************************************************************)
NormTitles ==
    {<<"D", "e", "a", "n", " ", "C", "O", "M">>, <<"D", "e", "a", "n", " ", "C", "O", "E">>, <<" ", "D", "e", "a", "n", " ", "C", "O", "B", "A", " ", " ">>, <<"D", "e", "a", "n", ",", " ", "C", "H", "S", "S">>, <<"D", "e", "a", "n", " ", "o", "f", " ", "C", "o", "l", "l", "e", "g", "e", " ", "C", "J">>,
     <<"d", "e", "a", "n", " ", "c", "a", "m">>, <<"D", "e", "a", "n", " ", "C", "o", "l", "l", "e", "g", "e", " ", "C", "O", "S", "E", "T">>, <<" ", " ", "D", "e", "a", "n", "-", "C", "O", "H", "S">>, <<"D", "e", "a", "n", " ", "o", "f", " ", "C", "o", "l", "l", "e", "g", "e">>,
     <<"D", "e", "a", "n">>, <<"D", "e", "a", "n", " ", "C", "o", "l", "l", "e", "g", "e">>, <<"D", "e", "a", "n", " ", "C", "o", "l", "l", "e", "g", "e", " ", "o", "f", " ", "H", "u", "m", "a", "n", "i", "t", "i", "e", "s">>, <<"D", "e", "a", "n", " ", "C", "o", "l", "l", "e", "g", "e", " ", "o", "f", " ", "S", "c", "i", "e", "n", "c", "e", "s">>,
     <<"D", "e", "a", "n", " ", "C", "o", "l", "l", "e", "g", "e", " ", "o", "f", " ", "E", "d", "u", "c", "a", "t", "i", "o", "n">>, <<"D", "e", "a", "n", " ", "o", "f", " ", "A", "r", "t", "s">>, <<"D", "e", "a", "n", " ", "C", "o", "l", "l", "e", "g", "e", " ", "o", "f", " ", "B", "u", "s", "i", "n", "e", "s", "s">>,
     <<"D", "e", "a", "n", " ", "O", "s", "t", "e", "o", "p", "a", "t", "h", "i", "c", " ", "M", "e", "d", "i", "c", "i", "n", "e">>, <<"D", "e", "a", "n", " ", "C", "o", "l", "l", "e", "g", "e", " ", "o", "f", " ", "C", "r", "i", "m", "i", "n", "a", "l", " ", "J", "u", "s", "t", "i", "c", "e">>,
     <<"D", "e", "a", "n", " ", "C", "o", "l", "l", "e", "g", "e", " ", "o", "f", " ", "H", "e", "a", "l", "t", "h">>, <<"D", "e", "a", "n", " ", "C", "o", "l", "l", "e", "g", "e", " ", "o", "f", " ", "S", "c", "i", "e", "n", "c", "e">>, <<"C", "o", "l", "l", "e", "g", "e", " ", "D", "e", "a", "n">>,
     <<"D", "e", "a", "n", " ", "h", "u", "m", "a", "n", "i", "t", " ", "c", "o", "l", "l", "e", "g", "e">>}

NormDepts ==
    {PyNone, PyNaN, PyStr(<<>>), PyStr(<<" ">>), PyStr(<<"C", "O", "B", "A">>), PyStr(<<"c", "o", "e">>),
     PyStr(<<"C", "H", "S", "S", " ", "O", "f", "f", "i", "c", "e", " ", "o", "f", " ", "t", "h", "e", " ", "D", "e", "a", "n">>), PyStr(<<"C", "o", "l", "l", "e", "g", "e", " ", "o", "f", " ", "C", "r", "i", "m", "i", "n", "a", "l", " ", "J", "u", "s", "t", "i", "c", "e">>),
     PyStr(<<"C", "o", "l", "l", "e", "g", "e", " ", "o", "f", " ", "F", "i", "n", "e", " ", "A", "r", "t", "s", " ", "a", "n", "d", " ", "M", "a", "s", "s", " ", "C", "o", "m", "m", "u", "n", "i", "c", "a", "t", "i", "o", "n">>), PyStr(<<"L", "i", "b", "r", "a", "r", "y">>),
     PyStr(<<"N", "o", "n", "e">>), PyStr(<<"D", "e", "a", "n", "'", "s", " ", "O", "f", "f", "i", "c", "e", " ", "S", "p", "e", "c", "i", "a", "l", "i", "s", "t">>)}

(***************************************************************************)
(* State                                                                   *)
(***************************************************************************)
VARIABLES
    ft_links,     \* the deduplicated link list
    pos,          \* number of links the for loop has taken
    pc,           \* position of the script
    year,         \* year of the current file
    engine,       \* xls.engine of the current workbook
    header_row,   \* loop variable of the header search
    tried,        \* header rows read so far for the current workbook
    df,           \* the frame selected by the header search
    filtered,     \* the Dean rows of df
    all_deans,    \* the accumulated records
    origin,       \* for each record, the link and the sheet row it came from
    skipped,      \* links given up, with the reason
    csv,          \* deans_salaries.csv
    stdout,       \* last line printed
    n_title, n_dept, n_result, n_again, n_pc   \* a call of normalize_dean_title

pvars == <<ft_links, pos, pc, year, engine, header_row, tried, df, filtered,
           all_deans, origin, skipped, csv, stdout>>
nvars == <<n_title, n_dept, n_result, n_again, n_pc>>
vars == <<pvars, nvars>>

NoFrame == [columns |-> <<>>, rows |-> <<>>]

PipelineIdle ==
    /\ ft_links = <<>> /\ pos = 0 /\ pc = "idle" /\ year = PyNone /\ engine = "none"
    /\ header_row = 0 /\ tried = {} /\ df = PyNone /\ filtered = NoFrame
    /\ all_deans = <<>> /\ origin = <<>> /\ skipped = <<>> /\ csv = PyNone
    /\ stdout = "none"

NormalizerIdle ==
    /\ n_title = PyNone /\ n_dept = PyNone /\ n_result = PyNone /\ n_again = PyNone
    /\ n_pc = "idle"

\* all_deans = pd.DataFrame(columns=[...]) with the link list discovered
Init ==
    /\ ft_links \in LinkLists
    /\ pos = 0 /\ pc = "loop" /\ year = PyNone /\ engine = "none"
    /\ header_row = 0 /\ tried = {} /\ df = PyNone /\ filtered = NoFrame
    /\ all_deans = <<>> /\ origin = <<>> /\ skipped = <<>> /\ csv = PyNone
    /\ stdout = "none"
    /\ NormalizerIdle

src == ft_links[pos]

\* continue: give up the current link and go back to the for statement
Continue(reason) ==
    /\ skipped' = Append(skipped, <<pos, reason>>)
    /\ pc' = "loop"

(***************************************************************************)
(* The per-file loop                                                       *)
(***************************************************************************)
\* for url in ft_links: year extraction and requests.get
FetchFile ==
    /\ pc = "loop"
    /\ pos < Len(ft_links)
    /\ pos' = pos + 1
    /\ year' = extract_year(ft_links[pos + 1].filename)
    /\ engine' = "none"
    /\ header_row' = 0
    /\ tried' = {}
    /\ df' = PyNone
    /\ filtered' = NoFrame
    /\ IF ft_links[pos + 1].fetch_ok
       THEN pc' = "open" /\ stdout' = "Processing" /\ skipped' = skipped
       ELSE /\ stdout' = "Error fetching"
            /\ skipped' = Append(skipped, <<pos + 1, "fetch">>)
            /\ pc' = "loop"
    /\ UNCHANGED <<ft_links, all_deans, origin, csv, nvars>>

\* pd.ExcelFile with openpyxl, then with xlrd
OpenWorkbook ==
    /\ pc = "open"
    /\ IF src.openpyxl_ok
       THEN engine' = "openpyxl" /\ pc' = "header" /\ UNCHANGED <<skipped, stdout>>
       ELSE IF src.xlrd_ok
       THEN engine' = "xlrd" /\ pc' = "header" /\ UNCHANGED <<skipped, stdout>>
       ELSE engine' = engine /\ stdout' = "Could not open" /\ Continue("decode")
    /\ UNCHANGED <<ft_links, pos, year, header_row, tried, df, filtered, all_deans,
                   origin, csv, nvars>>

\* one iteration of "for header_row in range(10)"
TryHeader ==
    /\ pc = "header"
    /\ header_row < HeaderRows
    /\ tried' = tried \cup {header_row}
    /\ LET df_try == read_excel(src.sheet, header_row)
       IN  IF ~df_try.raised /\ essential_columns_exist(mapped_cols(df_try.columns))
           THEN /\ df' = [columns |-> mapped_cols(df_try.columns), rows |-> df_try.rows]
                /\ pc' = "filter"
                /\ header_row' = header_row
           ELSE /\ df' = df
                /\ IF header_row + 1 < HeaderRows
                   THEN header_row' = header_row + 1 /\ pc' = pc
                   ELSE header_row' = header_row /\ pc' = "nohdr"
    /\ UNCHANGED <<ft_links, pos, year, engine, filtered, all_deans, origin, skipped,
                   csv, stdout, nvars>>

\* if df is None: print, read a sample, continue
HeaderNotFound ==
    /\ pc = "nohdr"
    /\ stdout' = "Skipping - could not detect header row"
    /\ skipped' = Append(skipped, <<pos, "schema">>)
    /\ IF read_excel(src.sheet, 0).raised THEN pc' = "aborted" ELSE pc' = "loop"
    /\ UNCHANGED <<ft_links, pos, year, engine, header_row, tried, df, filtered,
                   all_deans, origin, csv, nvars>>

\* strip the titles and keep the Dean rows
FilterDeans ==
    /\ pc = "filter"
    /\ IF Cardinality({k \in 1..Len(df.columns) : df.columns[k] = <<"T", "i", "t", "l", "e">>}) > 1
       THEN \* df["Title"] is a frame with no .str: AttributeError
            pc' = "aborted" /\ UNCHANGED <<filtered, skipped>>
       ELSE /\ filtered' = [columns |-> df.columns,
                            rows |-> filter_deans(df.columns, df.rows)]
            /\ IF filtered'.rows = <<>>
               THEN Continue("empty")
               ELSE pc' = "normalize" /\ skipped' = skipped
    /\ UNCHANGED <<ft_links, pos, year, engine, header_row, tried, df, all_deans,
                   origin, csv, stdout, nvars>>

\* department column, normalize_dean_title on every row, Year, pd.concat
NormalizeAndAppend ==
    /\ pc = "normalize"
    /\ LET titles == [k \in 1..Len(filtered.rows) |-> row_title(filtered.columns, filtered.rows[k])]
           block == [k \in 1..Len(filtered.rows) |->
                        [Year |-> year,
                         Title |-> titles[k].v,
                         Name |-> filtered.rows[k].c[col_pos(filtered.columns, <<"N", "a", "m", "e">>)],
                         Salary |-> filtered.rows[k].c[col_pos(filtered.columns, <<"S", "a", "l", "a", "r", "y">>)]]]
       IN  IF \E k \in 1..Len(titles) : titles[k] = RecursionError
           THEN pc' = "aborted" /\ UNCHANGED <<all_deans, origin, stdout>>
           ELSE /\ pc' = "loop"
                /\ IF <<"N", "a", "m", "e">> \in Range(filtered.columns) /\ <<"S", "a", "l", "a", "r", "y">> \in Range(filtered.columns)
                   THEN /\ all_deans' = pd_concat(all_deans, block)
                        /\ origin' = pd_concat(origin,
                                [k \in 1..Len(filtered.rows) |-> <<pos, filtered.rows[k].i>>])
                        /\ stdout' = stdout
                   ELSE /\ stdout' = "Skipping - missing Name or Salary"
                        /\ UNCHANGED <<all_deans, origin>>
    /\ UNCHANGED <<ft_links, pos, year, engine, header_row, tried, df, filtered, skipped,
                   csv, nvars>>

\* all_deans.to_csv(...) and the final print
SaveCsv ==
    /\ pc = "loop"
    /\ pos = Len(ft_links)
    /\ csv' = [header |-> <<"Year", "Title", "Name", "Salary">>, rows |-> all_deans]
    /\ stdout' = "All Dean salaries saved to deans_salaries.csv"
    /\ pc' = "done"
    /\ UNCHANGED <<ft_links, pos, year, engine, header_row, tried, df, filtered,
                   all_deans, origin, skipped, nvars>>

Next ==
    \/ FetchFile
    \/ OpenWorkbook
    \/ TryHeader
    \/ HeaderNotFound
    \/ FilterDeans
    \/ NormalizeAndAppend
    \/ SaveCsv

Spec == Init /\ [][Next]_vars

(***************************************************************************)
(* normalize_dean_title called on its own, and again on its own result     *)
(***************************************************************************)
NormInit ==
    /\ PipelineIdle
    /\ n_title \in {PyStr(t) : t \in NormTitles}
    /\ n_dept \in NormDepts
    /\ n_result = PyNone
    /\ n_again = PyNone
    /\ n_pc = "args"

Normalize ==
    /\ n_pc = "args"
    /\ n_result' = normalize_dean_title(n_title, n_dept)
    /\ n_pc' = "once"
    /\ UNCHANGED <<n_title, n_dept, n_again, pvars>>

NormalizeAgain ==
    /\ n_pc = "once"
    /\ n_again' = normalize_dean_title(n_result, n_dept)
    /\ n_pc' = "twice"
    /\ UNCHANGED <<n_title, n_dept, n_result, pvars>>

NormNext == Normalize \/ NormalizeAgain

NormSpec == NormInit /\ [][NormNext]_vars

(***************************************************************************)
(* Vocabulary of the properties, stated without the script's helpers.      *)
(***************************************************************************)
\* t begins with the word Dean, in any case
BeginsWithWordDean(t) ==
    /\ Len(t) >= 4
    /\ t[1] \in {"D", "d"} /\ t[2] \in {"E", "e"} /\ t[3] \in {"A", "a"} /\ t[4] \in {"N", "n"}
    /\ (Len(t) = 4 \/ ~IsWord(t[5]))

\* t contains "Dean's Office Specialist", in any case
ContainsOfficeSpecialist(t) ==
    LET x == <<"d", "e", "a", "n", "'", "s", " ", "o", "f", "f", "i", "c", "e", " ", "s", "p", "e", "c", "i", "a", "l", "i", "s", "t">>
    IN  \E i \in 1..(Len(t) - Len(x) + 1) : \A k \in 1..Len(x) : char_lower(t[i + k - 1]) = x[k]

IsDeanTitle(t) == BeginsWithWordDean(t) /\ ~ContainsOfficeSpecialist(t)

\* the text of a cell without surrounding white space
CellText(cell) == str_strip(py_str(cell))

\* the normalized key of a header cell and the schema column it stands for
HeaderKey(cell) ==
    IF cell.t = "nan" THEN <<>>
    ELSE LET low == str_lower(py_str(cell))
         IN  SelectSeq(low, LAMBDA c : c \in AlnumSet)

SchemaColumn(key) ==
    CASE key \in {<<"p", "o", "s", "i", "t", "i", "o", "n", "t", "i", "t", "l", "e">>, <<"j", "o", "b", "t", "i", "t", "l", "e">>, <<"t", "i", "t", "l", "e">>} -> "Title"
      [] key \in {<<"e", "m", "p", "l", "o", "y", "e", "e", "n", "a", "m", "e">>, <<"n", "a", "m", "e">>} -> "Name"
      [] key \in {<<"a", "n", "n", "u", "a", "l", "s", "a", "l", "a", "r", "y">>, <<"s", "a", "l", "a", "r", "y">>, <<"a", "n", "n", "u", "a", "l", "p", "a", "y", "r", "a", "t", "e">>, <<"f", "y", "1", "8", "a", "n", "n", "u", "a", "l", "s", "a", "l", "a", "r", "y">>,
                  <<"f", "y", "1", "9", "a", "n", "n", "u", "a", "l", "s", "a", "l", "a", "r", "y">>} -> "Salary"
      [] OTHER -> "other"

\* grid row h of the sheet holds all three required headers
Qualifies(sheet, h) ==
    /\ sheet.readable
    /\ h < Len(sheet.rows)
    /\ \A need \in {"Title", "Name", "Salary"} :
          \E k \in 1..Len(sheet.rows[h + 1]) : SchemaColumn(HeaderKey(sheet.rows[h + 1][k])) = need

\* a word w of t stands after the word dean
WordAfterDean(t, Accept(_)) ==
    \E i \in 1..Len(t) : \E j \in (i + 1)..Len(t) : \E n \in 1..(Len(t) - j + 1) :
        /\ re_word_at(t, i, <<"d", "e", "a", "n">>)
        /\ \A k \in j..(j + n - 1) : IsWord(t[k])
        /\ re_boundary(t, j) /\ re_boundary(t, j + n)
        /\ Accept(str_lower(SubSeq(t, j, j + n - 1)))

NamesCollegeCode(t) ==
    WordAfterDean(t, LAMBDA w : w \in {<<"c", "o", "m">>, <<"c", "o", "e">>, <<"c", "o", "b", "a">>, <<"c", "h", "s", "s">>, <<"c", "j">>, <<"c", "a", "m">>,
                                       <<"c", "o", "s", "e", "t">>, <<"c", "o", "h", "s">>})

NamesCollegeWord(t) ==
    WordAfterDean(t, LAMBDA w :
        \/ w \in {<<"o", "s", "t", "e", "o", "p", "a", "t", "h", "i", "c">>, <<"e", "d", "u", "c", "a", "t", "i", "o", "n">>, <<"b", "u", "s", "i", "n", "e", "s", "s">>, <<"c", "r", "i", "m", "i", "n", "a", "l">>, <<"a", "r", "t", "s">>,
                  <<"s", "c", "i", "e", "n", "c", "e">>, <<"h", "e", "a", "l", "t", "h">>}
        \/ (Len(w) >= 7 /\ SubSeq(w, 1, 7) = <<"h", "u", "m", "a", "n", "i", "t">>))

LastSkip == skipped[Len(skipped)]

(***************************************************************************)
(* C1: every record of all_deans has a Title that begins with the word     *)
(* Dean (any case) and does not contain "Dean's Office Specialist" (any    *)
(* case), whatever the raw title and the department value were.            *)
(***************************************************************************)
C1_TitlesAreDean ==
    \A k \in DOMAIN all_deans : IsDeanTitle(all_deans[k].Title)

\* a record whose title was rewritten from a department naming the excluded title
C1_Witness ==
    \E k \in DOMAIN all_deans :
        /\ all_deans[k].Title = <<"D", "e", "a", "n", " ", "D", "S", "O", "S">>
        /\ \E j \in DOMAIN all_deans : all_deans[j].Title = <<"D", "e", "a", "n", " ", "C", "O", "B", "A">>

(***************************************************************************)
(* C2: a source that fails to fetch, to open with either engine, or to     *)
(* show the required columns at any header offset is skipped and the run   *)
(* goes on: the run is never aborted by such a source.                     *)
(***************************************************************************)
C2_FailingSourceNeverAborts ==
    (skipped # <<>> /\ LastSkip[1] = pos /\ LastSkip[2] \in {"fetch", "decode", "schema"})
        => pc # "aborted"

(***************************************************************************)
(* C3: a source whose file name has no fiscal-year token contributes no    *)
(* record, so no record has an unresolved Year.                            *)
(***************************************************************************)
C3_NoRecordWithoutYear ==
    /\ \A k \in DOMAIN all_deans : all_deans[k].Year # PyNone
    /\ \A k \in DOMAIN origin : extract_year(ft_links[origin[k][1]].filename) # PyNone

(***************************************************************************)
(* C4: when the dataset is empty after the last source, the run ends in a  *)
(* failure: no CSV is written and no success is reported.                  *)
(***************************************************************************)
C4_EmptyDatasetIsFailure ==
    (pc = "done" /\ all_deans = <<>>)
        => (csv = PyNone /\ stdout # "All Dean salaries saved to deans_salaries.csv")

OriginBefore(a, b) == a[1] < b[1] \/ (a[1] = b[1] /\ a[2] < b[2])

C5_Ordered ==
    /\ Len(origin) = Len(all_deans)
    /\ \A i \in DOMAIN origin : \A j \in DOMAIN origin : i < j => OriginBefore(origin[i], origin[j])

C5_AppendStep ==
    /\ Len(all_deans') >= Len(all_deans)
    /\ SubSeq(all_deans', 1, Len(all_deans)) = all_deans
    /\ SubSeq(origin', 1, Len(origin)) = origin
    /\ \A k \in (Len(origin) + 1)..Len(origin') : origin'[k][1] = pos
    /\ (pc = "filter" /\ filtered'.rows = <<>>) => all_deans' = all_deans

(***************************************************************************)
(* C5: all_deans is append-only and ordered: a step only adds records at   *)
(* the end, all of them from the source being processed; records stand in  *)
(* source order, then in sheet row order; a source left with no row by the *)
(* Dean filter changes nothing.                                            *)
(***************************************************************************)
C5_AppendOnlyOrdered == [](C5_Ordered) /\ [][C5_AppendStep]_vars

\* both sources contributed, the first one two records from rows that are not adjacent
C5_Witness ==
    /\ pc = "done"
    /\ Len(all_deans) >= 4
    /\ origin[1][1] = 1 /\ origin[2][1] = 1 /\ origin[2][2] > origin[1][2] + 1
    /\ origin[Len(origin)][1] = 2

(***************************************************************************)
(* C6: the header search reads offsets 0, 1, ... in ascending order and    *)
(* selects the smallest of the offsets 0..9 whose row holds Title, Name    *)
(* and Salary after normalization and aliasing; it reads no later offset;  *)
(* when none of the ten qualifies the source contributes no record.        *)
(***************************************************************************)
C6_SmallestQualifyingOffset ==
    /\ df # PyNone =>
          /\ header_row \in 0..9
          /\ Qualifies(src.sheet, header_row)
          /\ \A h \in 0..(header_row - 1) : ~Qualifies(src.sheet, h)
          /\ tried = 0..header_row
    /\ pc = "nohdr" =>
          /\ df = PyNone
          /\ tried = 0..9
          /\ \A h \in 0..9 : ~Qualifies(src.sheet, h)
    /\ \A k \in DOMAIN skipped :
          skipped[k][2] = "schema" => \A h \in 0..9 : ~Qualifies(ft_links[skipped[k][1]].sheet, h)
    /\ \A k \in DOMAIN origin :
          \E h \in 0..9 : /\ Qualifies(ft_links[origin[k][1]].sheet, h)
                          /\ \A g \in 0..(h - 1) : ~Qualifies(ft_links[origin[k][1]].sheet, g)
                          /\ origin[k][2] > h

\* the headers stand in row 3 under three title/blank rows and offset 3 is selected
C6_Witness ==
    /\ pc = "filter"
    /\ src.sheet = SheetOffset3
    /\ header_row = 3
    /\ df.columns = <<<<"T", "i", "t", "l", "e">>, <<"N", "a", "m", "e">>, <<"S", "a", "l", "a", "r", "y">>, <<"d", "e", "p", "a", "r", "t", "m", "e", "n", "t">>>>

TitleCell(row) == row.c[CHOOSE k \in 1..Len(df.columns) : df.columns[k] = <<"T", "i", "t", "l", "e">>]

FilterRan ==
    /\ df # PyNone
    /\ pc # "filter"
    /\ ~(pc = "aborted" /\ filtered = NoFrame)

(***************************************************************************)
(* C7: the Dean filter keeps a row if and only if its stripped Title       *)
(* begins with the word Dean (any case) and does not contain "Dean's       *)
(* Office Specialist" (any case); it keeps the rows as they are, in order. *)
(***************************************************************************)
C7_FilterKeepsExactlyDeans ==
    FilterRan =>
        /\ \A k \in DOMAIN df.rows :
              (\E j \in DOMAIN filtered.rows : filtered.rows[j] = df.rows[k])
                  <=> IsDeanTitle(CellText(TitleCell(df.rows[k])))
        /\ \A i \in DOMAIN filtered.rows : \A j \in DOMAIN filtered.rows :
              i < j => filtered.rows[i].i < filtered.rows[j].i

\* Associate Dean, Deanery Clerk and the office specialist dropped, three rows kept
C7_Witness ==
    /\ pc = "normalize"
    /\ src.sheet = SheetOffset3
    /\ Len(df.rows) = 6
    /\ Len(filtered.rows) = 3

(***************************************************************************)
(* C8: for a title that names a college code as a separate word after      *)
(* Dean, and any department value, normalizing the result again with the   *)
(* same department gives the same result.                                  *)
(***************************************************************************)
C8_IdempotentOnCodes ==
    (n_pc = "twice" /\ NamesCollegeCode(n_title.v)) => n_again = n_result

\* a padded title with a code, normalized twice with a department that is a code itself
C8_Witness ==
    /\ n_pc = "twice"
    /\ n_title = PyStr(<<" ", "D", "e", "a", "n", " ", "C", "O", "B", "A", " ", " ">>)
    /\ n_dept = PyStr(<<"c", "o", "e">>)
    /\ n_again = PyStr(<<"D", "e", "a", "n", " ", "C", "O", "B", "A">>)

(***************************************************************************)
(* C9: when the title names no college and no department value is          *)
(* available (None or empty), the result is exactly "Dean Unknown".        *)
(***************************************************************************)
C9_DeanUnknown ==
    (/\ n_pc = "once"
     /\ ~NamesCollegeCode(n_title.v)
     /\ ~NamesCollegeWord(n_title.v)
     /\ n_dept \in {PyNone, PyStr(<<>>)})
        => n_result = PyStr(<<"D", "e", "a", "n", " ", "U", "n", "k", "n", "o", "w", "n">>)

(***************************************************************************)
(* C10: when the title names a college by a long-form word after Dean      *)
(* (osteopathic, education, business, a word beginning with humanit,       *)
(* criminal, arts, science, health), the result is the title unchanged,    *)
(* whatever the department value.                                          *)
(***************************************************************************)
C10_LongFormWordWins ==
    (n_pc = "once" /\ NamesCollegeWord(n_title.v)) => n_result = n_title
====
